---- MODULE Spec2Model ----
(***************************************************************************)
(* The game-file patcher of the launcher (patcher.py, with helper.retry).  *)
(* One run of Patcher.check_update: install-path check, manifest fetch,    *)
(* planning (__check_files / __check_patch), and the parallel download     *)
(* workers (__download_worker / __attempt_download_file / __download_file) *)
(* over a shared mirror list, a staging directory and the install          *)
(* directory.                                                              *)
(***************************************************************************)
EXTENDS Integers, Sequences, FiniteSets, TLC

VARIABLES
    pc,             \* position of the thread running check_update
    ret,            \* what check_update returned: "None" while running
    dirExists,      \* os.path.exists(ttr_dir)
    system,         \* the platform tag of the host (sys.platform)
    manifest,       \* the patch manifest, a sequence of entries in insertion order
    disk,           \* install directory: relative path -> blob or NoFile
    disk0,          \* the install directory as it was when the run started
    idx,            \* loop position of "for filename in patch_manifest"
    download_info,  \* remote filename -> planned download or NoAction
    mirrors,        \* self.mirrors: ok = FALSE for None, else the shared list;
                    \* serve: how each mirror of the list answers a payload GET
    temp,           \* the TemporaryDirectory: "none", "exists" or "removed"
    stage,          \* files of the staging directory: name -> blob or NoFile
    task,           \* one record per submitted __attempt_download_file future
    requested,      \* TRUE once a payload GET was sent to a mirror
    readonly,       \* the files of the install directory that cannot be written
    call,           \* the frame of the running call of helper.retry
    accounts,       \* settings_data['accounts']: the dict, as a function
                    \* from the number n of the key 'account<n>' to the account
    selection,      \* what helper.confirm returned last: the menu item in
                    \* choose_menu and the account number in remove_account
    login           \* login_worker: resp_data, whether soft_fail and
                    \* start_game were called, the number of requests sent
                    \* and the answers received so far

vars == <<pc, ret, dirExists, system, manifest, disk, disk0, idx,
          download_info, mirrors, temp, stage, task, requested, readonly, call,
          accounts, selection, login>>

-----------------------------------------------------------------------------
(* Bounds of the model *)

\* longest manifest the planner specification enumerates
MaxEntries == 2

\* length of the mirror list returned by the mirrors endpoint
NumMirrors == 2

-----------------------------------------------------------------------------
(* Values *)

NoFile == "NoFile"

\* a field that a manifest entry or a download_info entry does not have
Missing == "Missing"

NoHash == <<"Missing", "">>

\* no entry in download_info under a remote filename
NoAction ==
    [type |-> "none", local_filename |-> "", hash |-> NoHash,
     comp_hash |-> NoHash, post_patch_hash |-> NoHash]

\* self.retry_count
retry_count == 3

\* settings_data['accounts'] without an account
NoAccounts == << >>

\* helper.confirm has not been called
NoSelection == [menu |-> 0, account |-> 0]

\* login_worker has not been called
NoLogin == [resp_data |-> "unbound", soft_fail |-> FALSE, started |-> FALSE,
            requests |-> 0, answers |-> << >>]

\* manifest keys: relative paths inside the install directory
KeyNames == {"a", "b", "d/a"}

\* remote paths of full payloads (the 'dl' field)
DlNames == {"x", "y"}

\* keys of download_info: 'dl' values and basenames of patch filenames
RemoteNames == {"x", "y", "p", "a"}

\* names that occur inside the staging directory
StageNames == {"x", "y", "p", "a", "b"}

\* file contents: installed versions, bsdiff deltas, bz2 payloads
Blobs ==
    {"V1", "V2", "Vx", "D12", "Dbad", "ZV2", "ZVx", "ZD12", "ZDbad", "junk", "empty"}

\* what a mirror may send as the body of a 2xx answer
Payloads == {"ZV2", "ZVx", "ZD12", "ZDbad", "junk"}

\* the mirrors of the endpoint's list, each base URL listed once
Mirrors == 1..NumMirrors

\* How a mirror answers the GET of a payload: "any" (an HTTP error, a body
\* without Content-Length, or any body), "reject" (always an HTTP error),
\* "corrupt" (a body whose SHA-1 is not the expected compressed hash),
\* "valid" (the body whose SHA-1 is the expected compressed hash),
\* "nolength" (that body in an answer without a Content-Length header).
AnyServe == [m \in Mirrors |-> "any"]

\* every mirror answers without a Content-Length header
NoLengthServe == [m \in Mirrors |-> "nolength"]

\* the first mirror of the list answers in the way b, every other one is valid
HeadServes(b) == [m \in Mirrors |-> IF m = 1 THEN b ELSE "valid"]

\* os.path.basename
Basename(path) ==
    CASE path = "d/a" -> "a"
      [] path = "q/p" -> "p"
      [] OTHER -> path

\* hashlib.sha1 of a whole file, collision free on the blobs of the model
get_sha1sum(blob) == <<"sha1", blob>>

\* bz2.BZ2File(...).read(): the decompressed blob, or "OSError" on a non-bz2 stream
bz2_read(blob) ==
    CASE blob = "ZV2" -> "V2"
      [] blob = "ZVx" -> "Vx"
      [] blob = "ZD12" -> "D12"
      [] blob = "ZDbad" -> "Dbad"
      [] blob = "empty" -> "empty"
      [] OTHER -> "OSError"

\* bsdiff4.file_patch_inplace(base, delta): the patched blob, or "ValueError"
\* when delta is no bsdiff patch. D12 turns V1 into V2; Dbad is a well-formed
\* patch whose output is not the version the manifest announces. A patch
\* applied to another base than the one it was made for yields other bytes.
file_patch_inplace(base, delta) ==
    CASE delta = "D12" /\ base = "V1" -> "V2"
      [] delta = "D12" /\ base # "V1" -> "junk"
      [] delta = "Dbad" /\ base = "V1" -> "Vx"
      [] delta = "Dbad" /\ base # "V1" -> "junk"
      [] OTHER -> "ValueError"

-----------------------------------------------------------------------------
(* helper.retry, one pass of its while loop at a time *)

\* what a callback can do: return None, a truthy value, a falsy value that is
\* not None, or raise
Truthy == {"True", "manifest"}

Falsy == {"False", "0"}

Exceptions == {"RequestException", "JSONDecodeError"}

Outcomes == {"None"} \cup Truthy \cup Falsy \cup Exceptions

\* The frame of helper.retry. state: "idle" (no call), "loop" (at the while
\* test), "break" (left the loop by break), "returned", "raised". result is
\* "unbound" until a callback has returned; exception is "unbound" until the
\* first pass has begun. calls counts the calls of the callback, sleeps the
\* calls of time.sleep; log holds the outcomes of the calls made; value is
\* what the call of retry returned or raised.
NoCall ==
    [state |-> "idle", count |-> 0, attempt |-> 0, exception |-> "unbound",
     result |-> "unbound", calls |-> 0, sleeps |-> 0, log |-> << >>,
     value |-> "None"]

\* line 191: the frame on entry
retry_enter(count) == [NoCall EXCEPT !.state = "loop", !.count = count]

\* a pass that keeps the exception of the pass before it
retry_pass_keeping_exception(c, o) ==
    LET called == [c EXCEPT !.calls = @ + 1, !.log = Append(@, o)] IN
    IF o \in Exceptions
    THEN [called EXCEPT !.exception = o, !.sleeps = @ + 1, !.attempt = @ + 1]
    ELSE IF o \in Falsy
    THEN [called EXCEPT !.result = o, !.sleeps = @ + 1, !.attempt = @ + 1,
                        !.exception = IF @ = "unbound" THEN "None" ELSE @]
    ELSE [called EXCEPT !.result = o, !.state = "break",
                        !.exception = IF @ = "unbound" THEN "None" ELSE @]

\* lines 193-212: one pass of the while loop in which the callback ended with
\* the outcome o. "if attempt < count" of lines 200 and 208 is the loop's own
\* test, so it holds in every pass and every failed pass sleeps.
retry_pass(c, o) ==
    LET called == [c EXCEPT !.exception = "None", !.calls = @ + 1,
                            !.log = Append(@, o)] IN
    IF o \in Exceptions
    THEN [called EXCEPT !.exception = o, !.sleeps = @ + 1, !.attempt = @ + 1]
    ELSE IF o \in Falsy
    THEN [called EXCEPT !.result = o, !.sleeps = @ + 1, !.attempt = @ + 1]
    ELSE [called EXCEPT !.result = o, !.state = "break"]

\* lines 214-217 after the loop: raise the exception of the last pass, or
\* return the result; with count = 0 no pass has bound `exception`
retry_leave(c) ==
    IF c.exception = "unbound"
    THEN [c EXCEPT !.state = "raised", !.value = "UnboundLocalError"]
    ELSE IF c.exception # "None"
    THEN [c EXCEPT !.state = "raised", !.value = c.exception]
    ELSE [c EXCEPT !.state = "returned", !.value = c.result]

\* the loop is over: the while test fails or a pass left by break
retry_over(c) == c.state = "break" \/ (c.state = "loop" /\ c.attempt >= c.count)

-----------------------------------------------------------------------------
(* Manifests *)

PatchDesc(src, filename, delta) ==
    [src |-> get_sha1sum(src), filename |-> filename,
     patchHash |-> get_sha1sum(delta),
     compPatchHash |-> get_sha1sum("Z" \o delta)]

\* the 'patches' field of an entry: a dict of patch descriptors by source hash
Patches(descs) == [present |-> TRUE, descs |-> descs]

\* an entry without a 'patches' field
NoPatches == [present |-> FALSE, descs |-> {}]

\* the 'only' field of an entry: the platform tags the file applies to
OnlyUnix == {"darwin", "linux", "linux2"}

OnlyWindows == {"win32", "win64"}

Entry(key, only, dl, comp, patches) ==
    [key |-> key, only |-> only, hash |-> get_sha1sum("V2"), dl |-> dl,
     compHash |-> get_sha1sum(comp), patches |-> patches]

\* The situations __check_patch tells apart for one entry: the 'patches' field
\* of the entry and the content of the local file.
Situations ==
    { [patches |-> Patches({PatchDesc("V1", "q/p", "D12")}), file |-> NoFile],
      [patches |-> Patches({PatchDesc("V1", "q/p", "D12")}), file |-> "V2"],
      [patches |-> Patches({PatchDesc("V1", "q/p", "D12")}), file |-> "V1"],
      [patches |-> Patches({PatchDesc("V1", "x", "D12")}), file |-> "V1"],
      [patches |-> Patches({PatchDesc("V1", "q/p", "D12")}), file |-> "Vx"],
      [patches |-> Patches({}), file |-> "V1"],
      [patches |-> NoPatches, file |-> "V1"] }

\* one manifest entry together with the local file at install_dir/key
PlanOptions ==
    { [entry |-> Entry(k, OnlyWindows, "x", "ZV2", Patches({})), file |-> NoFile] : k \in KeyNames }
    \cup
    { [entry |-> Entry(k, OnlyUnix, dl, "ZV2", s.patches), file |-> s.file] :
        k \in KeyNames, dl \in DlNames \cup {Missing}, s \in Situations }

DistinctKeys(inp) ==
    \A i, j \in DOMAIN inp : i # j => inp[i].entry.key # inp[j].entry.key

PlanInputs ==
    UNION { {inp \in [1..n -> PlanOptions] : DistinctKeys(inp)} : n \in 0..MaxEntries }

ManifestOf(inp) == [i \in DOMAIN inp |-> inp[i].entry]

DiskOf(inp) ==
    [k \in KeyNames |->
        IF \E i \in DOMAIN inp : inp[i].entry.key = k
        THEN inp[CHOOSE i \in DOMAIN inp : inp[i].entry.key = k].file
        ELSE NoFile]

-----------------------------------------------------------------------------
(* Planner: Patcher.__check_files and Patcher.__check_patch *)

ManifestKeys(m) == {m[i].key : i \in DOMAIN m}

\* patch_manifest[filename]
Lookup(m, filename) == m[CHOOSE i \in DOMAIN m : m[i].key = filename]

FullAction(e, filename) ==
    [type |-> "full", local_filename |-> filename, hash |-> e.hash,
     comp_hash |-> e.compHash, post_patch_hash |-> NoHash]

PatchAction(e, p, filename) ==
    [type |-> "patch", local_filename |-> filename, hash |-> p.patchHash,
     comp_hash |-> p.compPatchHash, post_patch_hash |-> e.hash]

New(kind, name, action) == [kind |-> kind, name |-> name, action |-> action]

\* The full-download branch of lines 291-299 and 313-319: a missing 'dl'
\* raises KeyError.
FullDownloadNew(e, filename) ==
    IF e.dl = Missing THEN New("KeyError", "", NoAction)
    ELSE New("new", e.dl, FullAction(e, filename))

\* download_info_new of __check_patch for the manifest key `key` (the file is
\* install_dir/key, the manifest is indexed by its basename): kind "empty" for
\* an empty dict, "new" for a one-entry dict, "KeyError" when a KeyError
\* leaves the function.
check_patch(sys, key, m, dsk) ==
    LET filename == Basename(key) IN
    IF filename \notin ManifestKeys(m) THEN New("empty", "", NoAction)
    ELSE LET e == Lookup(m, filename) IN
    IF sys \notin e.only THEN New("empty", "", NoAction)
    ELSE IF dsk[key] = NoFile
    THEN \* except FileNotFoundError: a KeyError here is swallowed
         IF FullDownloadNew(e, filename).kind = "KeyError"
         THEN New("empty", "", NoAction)
         ELSE FullDownloadNew(e, filename)
    ELSE LET sha1sum == get_sha1sum(dsk[key]) IN
    IF sha1sum = e.hash THEN New("empty", "", NoAction)
    ELSE IF ~e.patches.present THEN New("KeyError", "", NoAction)
    ELSE IF \E p \in e.patches.descs : p.src = sha1sum
    THEN LET p == CHOOSE q \in e.patches.descs : q.src = sha1sum
         IN New("new", Basename(p.filename), PatchAction(e, p, filename))
    ELSE FullDownloadNew(e, filename)

\* download_info.update(download_info_new)
update(info, new) ==
    IF new.kind = "new" THEN [info EXCEPT ![new.name] = new.action] ELSE info

EmptyInfo == [r \in RemoteNames |-> NoAction]

Planned(info) == {r \in RemoteNames : info[r] # NoAction}

\* The loop of __check_files from entry i on, started with download_info =
\* info: kind "ok" with the dictionary it has built, or kind "KeyError" when
\* __check_patch raised.
RECURSIVE check_files(_, _, _, _, _)
check_files(sys, m, dsk, i, info) ==
    IF i > Len(m) THEN [kind |-> "ok", info |-> info]
    ELSE LET new == check_patch(sys, m[i].key, m, dsk) IN
         IF new.kind = "KeyError" THEN [kind |-> "KeyError", info |-> info]
         ELSE check_files(sys, m, dsk, i + 1, update(info, new))

\* one iteration of "for filename in patch_manifest" in __check_files
CheckPatch ==
    /\ pc = "check_files"
    /\ idx <= Len(manifest)
    /\ LET new == check_patch(system, manifest[idx].key, manifest, disk) IN
       IF new.kind = "KeyError"
       THEN /\ pc' = "done"
            /\ ret' = "raise"
            /\ UNCHANGED <<idx, download_info>>
       ELSE /\ download_info' = update(download_info, new)
            /\ idx' = idx + 1
            /\ UNCHANGED <<pc, ret>>
    /\ UNCHANGED <<dirExists, system, manifest, readonly, accounts, selection, login, call, disk, disk0,
                   mirrors, temp, stage, task, requested>>

\* the end of the loop of __check_files: start the downloads or return True
CheckFilesEnd ==
    /\ pc = "check_files"
    /\ idx > Len(manifest)
    /\ IF Planned(download_info) # {}
       THEN pc' = "download_worker" /\ ret' = ret
       ELSE pc' = "done" /\ ret' = "True"
    /\ UNCHANGED <<dirExists, system, manifest, readonly, accounts, selection, login, call, disk, disk0,
                   idx, download_info, mirrors, temp, stage, task, requested>>

-----------------------------------------------------------------------------
(* One future of the thread pool: helper.retry around Patcher.__download_file *)

\* state: "none" (nothing submitted), "queued", "running", "done"
\* step: the next statement of __download_file the worker executes
\* attempt: the loop counter of helper.retry
\* mirror: the local variable mirror = mirrors[0] of the current attempt
\* result: what the future holds: "None", "True", "False" or "raise"
\* comp_ok, decomp_ok: the current attempt found the staged compressed
\*   (decompressed) file's SHA-1 equal to the expected one
\* valid: the payload served to the current attempt has the expected
\*   compressed hash and decompresses to the expected decompressed hash
\* all_bad: every attempt so far was served a payload whose SHA-1 differs
\*   from the expected compressed hash
\* post_mismatch: an attempt applied the patch and then found the SHA-1 of
\*   the patched file different from post_patch_hash
NoTask ==
    [state |-> "none", step |-> "", attempt |-> 0, mirror |-> 0,
     result |-> "None", comp_ok |-> FALSE, decomp_ok |-> FALSE,
     valid |-> FALSE, all_bad |-> TRUE, post_mismatch |-> FALSE]

\* the planner started on any manifest and install directory of PlanInputs
InitPlan ==
    /\ \E inp \in PlanInputs :
          /\ manifest = ManifestOf(inp)
          /\ disk = DiskOf(inp)
          /\ disk0 = DiskOf(inp)
    /\ pc = "check_files"
    /\ ret = "None"
    /\ dirExists = TRUE
    /\ system = "linux"
    /\ idx = 1
    /\ download_info = EmptyInfo
    /\ mirrors = [ok |-> FALSE, list |-> << >>, serve |-> AnyServe]
    /\ temp = "none"
    /\ stage = [n \in StageNames |-> NoFile]
    /\ task = [r \in RemoteNames |-> NoTask]
    /\ requested = FALSE
    /\ readonly = {}
    /\ call = NoCall
    /\ accounts = NoAccounts
    /\ selection = NoSelection
    /\ login = NoLogin

NextPlan == CheckPatch \/ CheckFilesEnd

SpecPlan == InitPlan /\ [][NextPlan]_vars

-----------------------------------------------------------------------------
(* helper.retry and Patcher.__download_file, one step per access to the
   shared mirror list, the staging directory or the install directory *)

\* One pass of the while loop of helper.retry after the callback ended with
\* `outcome`: "True" breaks the loop; "False" and "raise" sleep and count the
\* attempt; after the last attempt the result is returned or the exception
\* of that attempt is raised.
retry(count, t, outcome) ==
    IF outcome = "True"
    THEN [t EXCEPT !.state = "done", !.step = "", !.result = "True"]
    ELSE IF t.attempt + 1 < count
    THEN [t EXCEPT !.attempt = @ + 1, !.state = "running", !.step = "get",
                   !.mirror = 0, !.comp_ok = FALSE, !.decomp_ok = FALSE,
                   !.valid = FALSE]
    ELSE [t EXCEPT !.attempt = @ + 1, !.state = "done", !.step = "",
                   !.result = outcome]

\* an __attempt_download_file that allows one attempt more
attempt_download_file_once_more(t, outcome) == retry(retry_count + 1, t, outcome)

\* __attempt_download_file: the callback ended with `outcome`
attempt_download_file(t, outcome) == retry(retry_count, t, outcome)

\* the threads of the pool run while __download_worker waits for them, and
\* they go on running when a KeyboardInterrupt has ended that wait
Active(r) ==
    /\ pc \in {"workers", "interrupted"}
    /\ task[r].state \in {"queued", "running"}

\* the payload is the one the action expects
ValidPayload(info, payload) ==
    /\ get_sha1sum(payload) = info.comp_hash
    /\ get_sha1sum(bz2_read(payload)) = info.hash

\* the bodies a mirror answering in the way b sends for the action info
Served(b, info) ==
    CASE b = "valid" -> {p \in Payloads : get_sha1sum(p) = info.comp_hash}
      [] b = "corrupt" -> {p \in Payloads : get_sha1sum(p) # info.comp_hash}
      [] b \in {"reject", "nolength"} -> {}
      [] OTHER -> Payloads

\* lines 427-454: mirror = mirrors[0]; GET the payload; write it to
\* temp_dir/remote_filename
Get(r) ==
    /\ Active(r)
    /\ task[r].step = "get"
    /\ IF mirrors.list = << >>
       THEN \* IndexError
            /\ task' = [task EXCEPT ![r] =
                  attempt_download_file([@ EXCEPT !.all_bad = FALSE], "raise")]
            /\ UNCHANGED <<stage, requested>>
       ELSE IF temp # "exists"
       THEN \* RequestException, or FileNotFoundError from open() of line 443:
            \* the staging directory is gone
            /\ requested' = TRUE
            /\ task' = [task EXCEPT ![r] =
                  [@ EXCEPT !.state = "running", !.step = "evict_check",
                            !.mirror = Head(mirrors.list), !.all_bad = FALSE]]
            /\ stage' = stage
       ELSE /\ requested' = TRUE
            /\ \/ \* RequestException: the except branch of line 474
                  /\ mirrors.serve[Head(mirrors.list)] \in {"any", "reject"}
                  /\ task' = [task EXCEPT ![r] =
                        [@ EXCEPT !.state = "running", !.step = "evict_check",
                                  !.mirror = Head(mirrors.list),
                                  !.all_bad = FALSE]]
                  /\ stage' = stage
               \/ \* no Content-Length header: the file is opened (and emptied)
                  \* before int(None) raises TypeError
                  /\ mirrors.serve[Head(mirrors.list)] \in {"any", "nolength"}
                  /\ task' = [task EXCEPT ![r] =
                        attempt_download_file(
                            [@ EXCEPT !.mirror = Head(mirrors.list),
                                      !.all_bad = FALSE], "raise")]
                  /\ stage' = [stage EXCEPT ![r] = "empty"]
               \/ \E payload \in Served(mirrors.serve[Head(mirrors.list)],
                                        download_info[r]) :
                  /\ task' = [task EXCEPT ![r] =
                        [@ EXCEPT !.state = "running", !.step = "verify_comp",
                                  !.mirror = Head(mirrors.list),
                                  !.valid = ValidPayload(download_info[r], payload),
                                  !.all_bad = @ /\ get_sha1sum(payload)
                                                    # download_info[r].comp_hash]]
                  /\ stage' = [stage EXCEPT ![r] = payload]
    /\ UNCHANGED <<pc, ret, dirExists, system, manifest, readonly, accounts, selection, login, call, disk, disk0, idx,
                   download_info, mirrors, temp>>

\* the outcome of comparing a staged file's SHA-1 with the expected hash
HashCheck(file, expected) ==
    IF file = NoFile THEN "FileNotFoundError"
    ELSE IF get_sha1sum(file) # expected THEN "mismatch"
    ELSE "equal"

\* AfterCheck with the "return False" of a hash mismatch left out
AfterCheckIgnoringMismatch(t, check, next, flag) ==
    CASE check = "FileNotFoundError" -> [t EXCEPT !.step = "evict_check"]
      [] check = "mismatch" -> [t EXCEPT !.step = next]
      [] OTHER -> [[t EXCEPT !.step = next] EXCEPT ![flag] = TRUE]

\* where a step that ended with `check` sends the worker
AfterCheck(t, check, next, flag) ==
    CASE check = "FileNotFoundError" -> [t EXCEPT !.step = "evict_check"]
      [] check = "mismatch" -> attempt_download_file(t, "False")
      [] OTHER -> [[t EXCEPT !.step = next] EXCEPT ![flag] = TRUE]

\* lines 456-461: verify the downloaded file's hash
VerifyComp(r) ==
    /\ Active(r)
    /\ task[r].step = "verify_comp"
    /\ task' = [task EXCEPT ![r] =
          AfterCheck(@, HashCheck(stage[r], download_info[r].comp_hash),
                     "decompress", "comp_ok")]
    /\ UNCHANGED <<pc, ret, dirExists, system, manifest, readonly, accounts, selection, login, call, disk, disk0, idx,
                   download_info, mirrors, temp, stage, requested>>

\* lines 492-507 of __decompress_bz2: read temp_dir/remote_filename through
\* bz2 and write temp_dir/local_filename
Decompress(r) ==
    /\ Active(r)
    /\ task[r].step = "decompress"
    /\ LET local == download_info[r].local_filename IN
       IF stage[r] = NoFile
       THEN /\ task' = [task EXCEPT ![r].step = "evict_check"]
            /\ stage' = stage
       ELSE IF bz2_read(stage[r]) = "OSError"
       THEN \* the output file was opened for writing before the first read
            /\ task' = [task EXCEPT ![r] = attempt_download_file(@, "raise")]
            /\ stage' = [stage EXCEPT ![local] = "empty"]
       ELSE /\ task' = [task EXCEPT ![r].step = "verify_decomp"]
            /\ stage' = [stage EXCEPT ![local] = bz2_read(stage[r])]
    /\ UNCHANGED <<pc, ret, dirExists, system, manifest, readonly, accounts, selection, login, call, disk, disk0, idx,
                   download_info, mirrors, temp, requested>>

\* lines 509-517 of __decompress_bz2: verify the decompressed file's hash
VerifyDecomp(r) ==
    /\ Active(r)
    /\ task[r].step = "verify_decomp"
    /\ task' = [task EXCEPT ![r] =
          AfterCheck(@, HashCheck(stage[download_info[r].local_filename],
                                  download_info[r].hash),
                     "process", "decomp_ok")]
    /\ UNCHANGED <<pc, ret, dirExists, system, manifest, readonly, accounts, selection, login, call, disk, disk0, idx,
                   download_info, mirrors, temp, stage, requested>>

\* lines 535-537 of __process_decompressed_file: shutil.move of the
\* decompressed file into the install directory
MoveFull(r) ==
    /\ Active(r)
    /\ task[r].step = "process"
    /\ download_info[r].type = "full"
    /\ LET local == download_info[r].local_filename IN
       IF stage[local] = NoFile
       THEN /\ task' = [task EXCEPT ![r].step = "evict_check"]
            /\ UNCHANGED <<disk, stage>>
       ELSE IF local \in readonly
       THEN \* PermissionError out of shutil.move
            /\ task' = [task EXCEPT ![r] = attempt_download_file(@, "raise")]
            /\ UNCHANGED <<disk, stage>>
       ELSE /\ disk' = [disk EXCEPT ![local] = stage[local]]
            /\ stage' = [stage EXCEPT ![local] = NoFile]
            /\ task' = [task EXCEPT ![r] = attempt_download_file(@, "True")]
    /\ UNCHANGED <<pc, ret, dirExists, system, manifest, readonly, accounts, selection, login, call, disk0, idx,
                   download_info, mirrors, temp, requested>>

\* lines 538-540 of __process_decompressed_file: bsdiff4.file_patch_inplace
ApplyPatch(r) ==
    /\ Active(r)
    /\ task[r].step = "process"
    /\ download_info[r].type = "patch"
    /\ LET local == download_info[r].local_filename IN
       IF disk[local] = NoFile \/ stage[local] = NoFile
       THEN /\ task' = [task EXCEPT ![r].step = "evict_check"]
            /\ disk' = disk
       ELSE IF local \in readonly
               \/ file_patch_inplace(disk[local], stage[local]) = "ValueError"
       THEN \* PermissionError on opening the file for writing, or ValueError
            /\ task' = [task EXCEPT ![r] = attempt_download_file(@, "raise")]
            /\ disk' = disk
       ELSE /\ disk' = [disk EXCEPT ![local] =
                           file_patch_inplace(disk[local], stage[local])]
            /\ task' = [task EXCEPT ![r].step = "verify_patch"]
    /\ UNCHANGED <<pc, ret, dirExists, system, manifest, readonly, accounts, selection, login, call, disk0, idx,
                   download_info, mirrors, temp, stage, requested>>

\* post_patch_check without the "return False" of a mismatch
post_patch_check_unverified(t, check) ==
    CASE check = "FileNotFoundError" -> [t EXCEPT !.step = "evict_check"]
      [] OTHER -> attempt_download_file(t, "True")

\* what the post-patch comparison of lines 543-549 makes of the attempt
post_patch_check(t, check) ==
    CASE check = "FileNotFoundError" -> [t EXCEPT !.step = "evict_check"]
      [] check = "mismatch" ->
            attempt_download_file([t EXCEPT !.post_mismatch = TRUE], "False")
      [] OTHER -> attempt_download_file(t, "True")

\* lines 542-549 of __process_decompressed_file: verify the patched file
VerifyPatch(r) ==
    /\ Active(r)
    /\ task[r].step = "verify_patch"
    /\ task' = [task EXCEPT ![r] =
          post_patch_check(@, HashCheck(disk[download_info[r].local_filename],
                                        download_info[r].post_patch_hash))]
    /\ UNCHANGED <<pc, ret, dirExists, system, manifest, readonly, accounts, selection, login, call, disk, disk0, idx,
                   download_info, mirrors, temp, stage, requested>>

\* an EvictCheck without the size check of line 475
EvictCheckAnySize(r) ==
    /\ Active(r)
    /\ task[r].step = "evict_check"
    /\ task' = [task EXCEPT ![r].step = "evict_remove"]
    /\ UNCHANGED <<pc, ret, dirExists, system, manifest, readonly, accounts, selection, login, call, disk, disk0, idx,
                   download_info, mirrors, temp, stage, requested>>

\* line 475: if len(mirrors) > 1
EvictCheck(r) ==
    /\ Active(r)
    /\ task[r].step = "evict_check"
    /\ task' = [task EXCEPT ![r] =
          IF Len(mirrors.list) > 1 THEN [@ EXCEPT !.step = "evict_remove"]
          ELSE attempt_download_file(@, "False")]
    /\ UNCHANGED <<pc, ret, dirExists, system, manifest, readonly, accounts, selection, login, call, disk, disk0, idx,
                   download_info, mirrors, temp, stage, requested>>

\* list.remove(x): the list without the first occurrence of x
remove(list, x) ==
    LET i == CHOOSE k \in 1..Len(list) :
                 list[k] = x /\ \A j \in 1..(k - 1) : list[j] # x
    IN [k \in 1..(Len(list) - 1) |-> IF k < i THEN list[k] ELSE list[k + 1]]

\* lines 476-478: mirrors.remove(mirror); return False. list.remove raises
\* ValueError when the mirror is no longer in the list.
EvictRemove(r) ==
    /\ Active(r)
    /\ task[r].step = "evict_remove"
    /\ IF \E k \in 1..Len(mirrors.list) : mirrors.list[k] = task[r].mirror
       THEN /\ mirrors' = [mirrors EXCEPT !.list = remove(@, task[r].mirror)]
            /\ task' = [task EXCEPT ![r] = attempt_download_file(@, "False")]
       ELSE /\ mirrors' = mirrors
            /\ task' = [task EXCEPT ![r] = attempt_download_file(@, "raise")]
    /\ UNCHANGED <<pc, ret, dirExists, system, manifest, readonly, accounts, selection, login, call, disk, disk0, idx,
                   download_info, temp, stage, requested>>

Worker(r) ==
    \/ Get(r)
    \/ VerifyComp(r)
    \/ Decompress(r)
    \/ VerifyDecomp(r)
    \/ MoveFull(r)
    \/ ApplyPatch(r)
    \/ VerifyPatch(r)
    \/ EvictCheck(r)
    \/ EvictRemove(r)

-----------------------------------------------------------------------------
(* Patcher.check_update, __check_install_path, __patch_worker and
   __download_worker: the thread that runs the update *)

Results == {task[r].result : r \in Planned(download_info)}

\* a __check_install_path that goes on whatever the answer was
CheckInstallPathUnasked ==
    /\ pc = "check_install_path"
    /\ pc' = "patch_worker"
    /\ UNCHANGED <<ret, dirExists, system, manifest, readonly, accounts, selection, login, call, disk, disk0, idx,
                   download_info, mirrors, temp, stage, task, requested>>

\* __check_install_path: an existing directory passes; otherwise the user is
\* asked, and os.makedirs creates the directory or raises OSError
CheckInstallPath ==
    /\ pc = "check_install_path"
    /\ \/ /\ dirExists
          /\ pc' = "patch_worker"
          /\ UNCHANGED <<ret, dirExists>>
       \/ /\ ~dirExists
          /\ \/ \* answer 1, the directory is created
                /\ dirExists' = TRUE
                /\ pc' = "patch_worker"
                /\ ret' = ret
             \/ \* answer 0, or OSError from os.makedirs
                /\ pc' = "done"
                /\ ret' = "False"
                /\ dirExists' = dirExists
    /\ UNCHANGED <<system, manifest, readonly, accounts, selection, login, call, disk, disk0, idx, download_info, mirrors,
                   temp, stage, task, requested>>

\* __get_system
supported_systems == {"darwin", "linux", "linux2", "win32", "win64"}

\* lines 101-108 and 128-134 of __patch_worker: an unsupported system
\* returns False, otherwise helper.retry is entered for the manifest
PatchWorker ==
    /\ pc = "patch_worker"
    /\ IF system \notin supported_systems
       THEN pc' = "done" /\ ret' = "False" /\ call' = call
       ELSE /\ pc' = "get_patch_manifest"
            /\ ret' = ret
            /\ call' = retry_enter(retry_count)
    /\ UNCHANGED <<dirExists, system, manifest, readonly, accounts, selection, login, disk, disk0,
                   idx, download_info, mirrors, temp, stage, task, requested>>

\* what __get_patch_manifest does: it returns the decoded manifest, or
\* raise_for_status / the transport raises RequestException, or the body of a
\* 2xx answer is no JSON
ManifestOutcomes == {"manifest", "RequestException", "JSONDecodeError"}

\* One pass of helper.retry around __get_patch_manifest (lines 105-108).
\* When the loop is over, retry returns the manifest and __check_files
\* starts (line 126), or it raises and __patch_worker returns False (lines
\* 109-122); the frame of retry is gone then.
GetPatchManifest ==
    /\ pc = "get_patch_manifest"
    /\ \E o \in ManifestOutcomes :
          LET c == retry_pass(call, o) IN
          IF ~retry_over(c)
          THEN call' = c /\ UNCHANGED <<pc, ret>>
          ELSE /\ call' = NoCall
               /\ IF retry_leave(c).state = "returned"
                  THEN pc' = "check_files" /\ ret' = ret
                  ELSE pc' = "done" /\ ret' = "False"
    /\ UNCHANGED <<dirExists, system, manifest, readonly, accounts, selection, login, disk, disk0,
                   idx, download_info, mirrors, temp, stage, task, requested>>

\* lines 358-382 and 391-393 of __download_worker: no mirrors cancels the
\* download; otherwise the staging directory is created and one future per
\* entry of download_info is submitted
DownloadWorker ==
    /\ pc = "download_worker"
    /\ IF ~mirrors.ok
       THEN /\ pc' = "done"
            /\ ret' = "False"
            /\ UNCHANGED <<temp, task>>
       ELSE \/ /\ pc' = "workers"
               /\ ret' = ret
               /\ temp' = "exists"
               /\ task' = [r \in RemoteNames |->
                     IF r \in Planned(download_info)
                     THEN [NoTask EXCEPT !.state = "queued", !.step = "get"]
                     ELSE NoTask]
            \/ \* the directory cannot be created: FileNotFoundError is
               \* caught (return False), any other OSError propagates
               /\ pc' = "done"
               /\ ret' \in {"False", "raise"}
               /\ UNCHANGED <<temp, task>>
    /\ UNCHANGED <<dirExists, system, manifest, readonly, accounts, selection, login, call, disk, disk0, idx, download_info,
                   mirrors, stage, requested>>

\* a Collect that returns as soon as one future has failed
CollectAtFirstFailure ==
    /\ pc = "workers"
    /\ \E r \in Planned(download_info) :
          /\ task[r].state = "done"
          /\ task[r].result # "True"
          /\ ret' = task[r].result
    /\ pc' = "done"
    /\ temp' = "removed"
    /\ stage' = [n \in StageNames |-> NoFile]
    /\ UNCHANGED <<dirExists, system, manifest, readonly, accounts, selection, login, call, disk, disk0, idx, download_info,
                   mirrors, task, requested>>

\* a cleanup that leaves the staged files where they are
cleanup_nothing(st) == st

\* TemporaryDirectory.cleanup() on leaving the with block of line 364: the
\* staging directory is removed with every file in it
cleanup(st) == [n \in StageNames |-> NoFile]

\* a Collect that does not wait for the pool: it takes the result of the
\* first future that is finished and leaves the TemporaryDirectory block
CollectWithoutWaiting ==
    /\ pc = "workers"
    /\ \E r \in Planned(download_info) :
          /\ task[r].state = "done"
          /\ ret' = task[r].result
    /\ pc' = "done"
    /\ temp' = "removed"
    /\ stage' = [n \in StageNames |-> NoFile]
    /\ UNCHANGED <<dirExists, system, manifest, readonly, accounts, selection, login, call, disk, disk0, idx, download_info,
                   mirrors, task, requested>>

\* lines 384-395 of __download_worker, after the executor's with block has
\* waited for every future: as_completed yields the finished futures in no
\* fixed order, the first one that is not True ends the loop (False returns
\* False, an exception propagates), and leaving the TemporaryDirectory block
\* removes the staging directory with everything in it
Collect ==
    /\ pc = "workers"
    /\ \A r \in Planned(download_info) : task[r].state = "done"
    /\ \/ /\ Results \subseteq {"True"}
          /\ ret' = "True"
       \/ /\ \E res \in Results \ {"True"} : ret' = res
    /\ pc' = "done"
    /\ temp' = "removed"
    /\ stage' = cleanup(stage)
    /\ UNCHANGED <<dirExists, system, manifest, readonly, accounts, selection, login, call, disk, disk0, idx, download_info,
                   mirrors, task, requested>>

-----------------------------------------------------------------------------
(* Runs of check_update *)

\* the manifests and install directories the runs start from
Full(k, dl) ==
    [entry |-> Entry(k, OnlyUnix, dl, "ZV2", Patches({PatchDesc("V1", "q/p", "D12")})),
     file |-> NoFile]

Patchable(k, dl, delta) ==
    [entry |-> Entry(k, OnlyUnix, dl, "ZV2", Patches({PatchDesc("V1", "q/p", delta)})),
     file |-> "V1"]

RunInputs ==
    { \* a full download and a patch
      << Full("a", "x"), Patchable("b", "y", "D12") >>,
      \* two entries with the same remote path
      << Full("a", "x"), Full("b", "x") >>,
      \* a key inside a subdirectory
      << Patchable("a", "x", "D12"), Full("d/a", "y") >>,
      \* a remote path that is also the name of a file of the manifest
      << Full("b", "a"), Full("a", "x") >>,
      \* everything up to date or not for this platform
      << [entry |-> Entry("a", OnlyUnix, "x", "ZV2", Patches({})), file |-> "V2"],
         [entry |-> Entry("b", OnlyWindows, "y", "ZV2", Patches({})), file |-> NoFile] >>,
      \* a payload that decompresses to something else than the entry's hash
      << [entry |-> Entry("a", OnlyUnix, "x", "ZVx", Patches({})), file |-> NoFile] >>,
      \* a compressed hash that is the hash of a stream bz2 cannot read
      << [entry |-> Entry("a", OnlyUnix, "x", "junk", Patches({})), file |-> "Vx"] >>,
      \* a patch whose result is not the announced version
      << Patchable("b", "y", "Dbad") >>,
      \* an entry without 'patches' for an outdated file
      << [entry |-> Entry("a", OnlyUnix, "x", "ZV2", NoPatches), file |-> "V1"] >> }

\* self.mirrors after __init__: None, or the shuffled list of the endpoint
MirrorLists ==
    {[ok |-> FALSE, list |-> << >>, serve |-> AnyServe]}
    \cup {[ok |-> TRUE, list |-> [i \in 1..n |-> i], serve |-> s] :
              n \in 0..NumMirrors,
              s \in {AnyServe, HeadServes("reject"), HeadServes("corrupt"),
                     NoLengthServe}}

Init ==
    /\ \E inp \in RunInputs :
          /\ manifest = ManifestOf(inp)
          /\ \E exists \in BOOLEAN :
                /\ dirExists = exists
                /\ disk = (IF exists THEN DiskOf(inp) ELSE [k \in KeyNames |-> NoFile])
                /\ disk0 = disk
    /\ mirrors \in MirrorLists
    /\ system \in {"linux", "freebsd"}
    /\ pc = "check_install_path"
    /\ ret = "None"
    /\ idx = 1
    /\ download_info = EmptyInfo
    /\ temp = "none"
    /\ stage = [n \in StageNames |-> NoFile]
    /\ task = [r \in RemoteNames |-> NoTask]
    /\ requested = FALSE
    /\ readonly \in {{}} \cup {{k} : k \in {j \in KeyNames : disk[j] # NoFile}}
    /\ call = NoCall
    /\ accounts = NoAccounts
    /\ selection = NoSelection
    /\ login = NoLogin

Next ==
    \/ CheckInstallPath
    \/ PatchWorker
    \/ GetPatchManifest
    \/ CheckPatch
    \/ CheckFilesEnd
    \/ DownloadWorker
    \/ \E r \in RemoteNames : Worker(r)
    \/ Collect

Spec == Init /\ [][Next]_vars

-----------------------------------------------------------------------------
(* Events from outside the program *)

\* SIGINT while __download_worker waits for the futures in the executor's
\* with block (lines 377-382): KeyboardInterrupt is raised in the waiting
\* thread, leaves the with blocks (the TemporaryDirectory is cleaned up) and
\* check_update; nothing stops the threads of the pool.
Interrupt ==
    /\ pc = "workers"
    /\ pc' = "interrupted"
    /\ ret' = "KeyboardInterrupt"
    /\ temp' = "removed"
    /\ stage' = cleanup(stage)
    /\ UNCHANGED <<dirExists, system, manifest, readonly, accounts, selection, login, call, disk, disk0,
                   idx, download_info, mirrors, task, requested>>

\* a file for which a patch is planned is deleted after __check_files has
\* built the plan and before the workers start
Unlink ==
    /\ pc = "download_worker"
    /\ \E r \in Planned(download_info) :
          /\ download_info[r].type = "patch"
          /\ disk[download_info[r].local_filename] # NoFile
          /\ disk' = [disk EXCEPT ![download_info[r].local_filename] = NoFile]
    /\ UNCHANGED <<pc, ret, dirExists, system, manifest, readonly, accounts, selection, login, call, disk0,
                   idx, download_info, mirrors, temp, stage, task, requested>>

NextEnv == Next \/ Interrupt \/ Unlink

\* runs of check_update with these events
SpecEnv == Init /\ [][NextEnv]_vars

-----------------------------------------------------------------------------
(* helper.retry on its own *)

\* largest count helper.retry is called with
MaxCount == 3

InitRetry ==
    /\ \E count \in 0..MaxCount : call = retry_enter(count)
    /\ pc = "retry"
    /\ ret = "None"
    /\ dirExists = TRUE
    /\ system = "linux"
    /\ manifest = << >>
    /\ disk = [k \in KeyNames |-> NoFile]
    /\ disk0 = disk
    /\ idx = 1
    /\ download_info = EmptyInfo
    /\ mirrors = [ok |-> FALSE, list |-> << >>, serve |-> AnyServe]
    /\ temp = "none"
    /\ stage = [n \in StageNames |-> NoFile]
    /\ task = [r \in RemoteNames |-> NoTask]
    /\ requested = FALSE
    /\ readonly = {}
    /\ accounts = NoAccounts
    /\ selection = NoSelection
    /\ login = NoLogin

\* lines 193-212: the while test holds and the callback is called
RetryPass ==
    /\ pc = "retry"
    /\ call.state = "loop"
    /\ call.attempt < call.count
    /\ \E o \in Outcomes : call' = retry_pass(call, o)
    /\ UNCHANGED <<pc, ret, dirExists, system, manifest, readonly, accounts, selection, login, disk, disk0,
                   idx, download_info, mirrors, temp, stage, task, requested>>

\* lines 214-217: the loop is over, retry raises or returns
RetryLeave ==
    /\ pc = "retry"
    /\ retry_over(call)
    /\ call' = retry_leave(call)
    /\ UNCHANGED <<pc, ret, dirExists, system, manifest, readonly, accounts, selection, login, disk, disk0,
                   idx, download_info, mirrors, temp, stage, task, requested>>

NextRetry == RetryPass \/ RetryLeave

SpecRetry == InitRetry /\ [][NextRetry]_vars

\* The thread of check_update runs on, and the thread pool runs every
\* submitted future: some enabled step is eventually taken.
FairSpec == Init /\ [][Next]_vars /\ WF_vars(Next)

-----------------------------------------------------------------------------
(* launcher.py: the stored accounts *)

\* most accounts the user stores
MaxAccounts == 3

\* what the user types at 'Enter username to store or 0 for Main Menu: '
Usernames == {"0", "u", "v"}

\* what the user types at 'Enter password to store: '
Passwords == {"p", "q"}

\* d[k] = v on a dict
setitem(d, k, v) == [j \in DOMAIN d \cup {k} |-> IF j = k THEN v ELSE d[j]]

\* del d[k] on a dict that has the key k
delitem(d, k) == [j \in DOMAIN d \ {k} |-> d[j]]

\* add_account: the username 0 goes back to the menu; `verified` is FALSE
\* when password encryption is on and verify_master_password failed;
\* otherwise the account is stored under 'account<len + 1>'
add_account(accs, username, password, verified) ==
    IF username = "0" \/ ~verified THEN accs
    ELSE setitem(accs, Cardinality(DOMAIN accs) + 1,
                 [username |-> username, password |-> password])

\* lines 249-252 of remove_account, the loop "for num in range(selection,
\* num_accounts + 1)" from num on: account<num> is popped and stored as
\* account<num - 1>; a missing key ends the loop with KeyError
RECURSIVE renumber(_, _, _)
renumber(accs, num, num_accounts) ==
    IF num > num_accounts \/ num \notin DOMAIN accs THEN accs
    ELSE renumber(setitem(delitem(accs, num), num - 1, accs[num]),
                  num + 1, num_accounts)

\* a remove_account without the loop that adjusts the numbering
remove_account_keeping_numbers(accs, sel) ==
    IF sel = 0 \/ sel \notin DOMAIN accs THEN accs ELSE delitem(accs, sel)

\* remove_account with the answer sel of helper.confirm: 0 goes back to the
\* menu, otherwise account<sel> is deleted and the accounts after it are
\* renumbered
remove_account(accs, sel) ==
    IF sel = 0 \/ sel \notin DOMAIN accs THEN accs
    ELSE renumber(delitem(accs, sel), sel + 1, Cardinality(DOMAIN accs))

\* choose_menu with selection 2
AddAccount ==
    /\ pc = "menu"
    /\ Cardinality(DOMAIN accounts) < MaxAccounts
    /\ \E username \in Usernames, password \in Passwords, verified \in BOOLEAN :
          accounts' = add_account(accounts, username, password, verified)
    /\ selection' = [menu |-> 2, account |-> 0]
    /\ UNCHANGED <<pc, ret, dirExists, system, manifest, disk, disk0, idx,
                   download_info, mirrors, temp, stage, task, requested,
                   readonly, call, login>>

\* choose_menu with selection 4; helper.confirm is called with the bounds 0
\* and num_accounts when there is an account
RemoveAccount ==
    /\ pc = "menu"
    /\ \E sel \in 0..Cardinality(DOMAIN accounts) :
          /\ accounts' = remove_account(accounts, sel)
          /\ selection' = [menu |-> 4, account |-> sel]
    /\ UNCHANGED <<pc, ret, dirExists, system, manifest, disk, disk0, idx,
                   download_info, mirrors, temp, stage, task, requested,
                   readonly, call, login>>

\* the launcher at its Main Menu with no stored account
InitAccounts ==
    /\ pc = "menu"
    /\ accounts = NoAccounts
    /\ selection = NoSelection
    /\ login = NoLogin
    /\ call = NoCall
    /\ ret = "None"
    /\ dirExists = TRUE
    /\ system = "linux"
    /\ manifest = << >>
    /\ disk = [k \in KeyNames |-> NoFile]
    /\ disk0 = disk
    /\ idx = 1
    /\ download_info = EmptyInfo
    /\ mirrors = [ok |-> FALSE, list |-> << >>, serve |-> AnyServe]
    /\ temp = "none"
    /\ stage = [n \in StageNames |-> NoFile]
    /\ task = [r \in RemoteNames |-> NoTask]
    /\ requested = FALSE
    /\ readonly = {}

NextAccounts == AddAccount \/ RemoveAccount

SpecAccounts == InitAccounts /\ [][NextAccounts]_vars

-----------------------------------------------------------------------------
(* launcher.py: login_worker *)

\* most requests login_worker sends to the login API in one login
MaxRequests == 4

\* the count helper.retry is called with around do_request
login_retry_count == 3

\* resp_data['success'] of an answer of the login API
Responses == {"true", "false", "partial", "delayed"}

\* what a call of do_request does: it returns the decoded answer, or
\* requests.post / raise_for_status raises RequestException
DoRequestOutcomes == Responses \cup {"RequestException"}

\* one pass of helper.retry(3, 5, do_request, ...) in which do_request ended
\* with o; the first pass enters retry
do_request_pass(o) ==
    retry_pass(IF call.state = "idle" THEN retry_enter(login_retry_count)
               ELSE call, o)

\* login_worker after the RequestException left helper.retry: the except
\* clause of lines 379-385 calls soft_fail
connection_failed(l) ==
    [l EXCEPT !.soft_fail = TRUE, !.requests = @ + 1]

\* the checks "if resp_data['success'] == 'false'" that end
\* check_login_info, check_additional_auth and check_queue, and the
\* "if resp_data is None: soft_fail(); return" of login_worker
after_check(l) ==
    IF l.resp_data = "false"
    THEN [l EXCEPT !.resp_data = "None", !.soft_fail = TRUE]
    ELSE l

\* One pass of helper.retry around do_request in which do_request ended
\* with o: retry goes on ("retrying"), or it raises the RequestException of
\* its last pass and login_worker's except clause runs, or it returns the
\* answer, which becomes resp_data
request(o) ==
    LET c == do_request_pass(o) IN
    IF ~retry_over(c)
    THEN [status |-> "retrying", call |-> c, login |-> login]
    ELSE IF retry_leave(c).state = "raised"
    THEN [status |-> "raised", call |-> NoCall,
          login |-> connection_failed(login)]
    ELSE [status |-> "returned", call |-> NoCall,
          login |-> [login EXCEPT !.resp_data = retry_leave(c).value,
                                  !.requests = @ + 1,
                                  !.answers = Append(@, retry_leave(c).value)]]

\* check_login_info: the login request under helper.retry, then the check
\* for 'false'
CheckLoginInfo ==
    /\ pc = "check_login_info"
    /\ \E o \in DoRequestOutcomes :
          LET n == request(o) IN
          /\ call' = n.call
          /\ login' = IF n.status = "returned" THEN after_check(n.login)
                      ELSE n.login
          /\ pc' = CASE n.status = "retrying" -> pc
                     [] n.status = "raised" -> "done"
                     [] OTHER -> IF after_check(n.login).resp_data = "None"
                                 THEN "done" ELSE "check_additional_auth"
    /\ UNCHANGED <<ret, dirExists, system, manifest, disk, disk0, idx,
                   download_info, mirrors, temp, stage, task, requested,
                   readonly, accounts, selection>>

\* check_additional_auth: while the answer is 'partial' a token is sent, one
\* request under helper.retry per turn of the loop; after the loop the
\* check for 'false'
CheckAdditionalAuth ==
    /\ pc = "check_additional_auth"
    /\ IF login.resp_data = "partial"
       THEN /\ login.requests < MaxRequests
            /\ \E o \in DoRequestOutcomes :
                  LET n == request(o) IN
                  /\ call' = n.call
                  /\ login' = n.login
                  /\ pc' = IF n.status = "raised" THEN "done" ELSE pc
       ELSE /\ call' = call
            /\ login' = after_check(login)
            /\ pc' = IF after_check(login).resp_data = "None" THEN "done"
                     ELSE "check_queue"
    /\ UNCHANGED <<ret, dirExists, system, manifest, disk, disk0, idx,
                   download_info, mirrors, temp, stage, task, requested,
                   readonly, accounts, selection>>

\* check_queue: while the answer is 'delayed' the queue token is sent, one
\* request under helper.retry per turn of the loop; after the loop the
\* check for 'false'
CheckQueue ==
    /\ pc = "check_queue"
    /\ IF login.resp_data = "delayed"
       THEN /\ login.requests < MaxRequests
            /\ \E o \in DoRequestOutcomes :
                  LET n == request(o) IN
                  /\ call' = n.call
                  /\ login' = n.login
                  /\ pc' = IF n.status = "raised" THEN "done" ELSE pc
       ELSE /\ call' = call
            /\ login' = after_check(login)
            /\ pc' = IF after_check(login).resp_data = "None" THEN "done"
                     ELSE "start_game"
    /\ UNCHANGED <<ret, dirExists, system, manifest, disk, disk0, idx,
                   download_info, mirrors, temp, stage, task, requested,
                   readonly, accounts, selection>>

\* the else clause of login_worker's try (lines 386-394): start_game
StartGame ==
    /\ pc = "start_game"
    /\ pc' = "done"
    /\ login' = [login EXCEPT !.started = TRUE]
    /\ UNCHANGED <<ret, dirExists, system, manifest, disk, disk0, idx,
                   download_info, mirrors, temp, stage, task, requested,
                   readonly, call, accounts, selection>>

\* login_worker is called
InitLogin ==
    /\ pc = "check_login_info"
    /\ login = NoLogin
    /\ call = NoCall
    /\ accounts = NoAccounts
    /\ selection = NoSelection
    /\ ret = "None"
    /\ dirExists = TRUE
    /\ system = "linux"
    /\ manifest = << >>
    /\ disk = [k \in KeyNames |-> NoFile]
    /\ disk0 = disk
    /\ idx = 1
    /\ download_info = EmptyInfo
    /\ mirrors = [ok |-> FALSE, list |-> << >>, serve |-> AnyServe]
    /\ temp = "none"
    /\ stage = [n \in StageNames |-> NoFile]
    /\ task = [r \in RemoteNames |-> NoTask]
    /\ requested = FALSE
    /\ readonly = {}

NextLogin == CheckLoginInfo \/ CheckAdditionalAuth \/ CheckQueue \/ StartGame

SpecLogin == InitLogin /\ [][NextLogin]_vars

-----------------------------------------------------------------------------
(* Properties *)

\* the entry applies to the platform the run is on
Eligible(e) == system \in e.only

\* the planned actions whose local_filename is F
ActionsFor(F) ==
    {r \in Planned(download_info) : download_info[r].local_filename = F}

\* __check_files has processed every entry of the manifest without raising
PlanBuilt ==
    \/ pc \in {"download_worker", "workers"}
    \/ pc = "done" /\ idx > Len(manifest) /\ ret # "raise"

\* the future of action r has just got the result res
Reports(r, res) == task[r].result # res /\ task'[r].result = res

\* C1: a worker writes to the install directory only in the install step of
\* an attempt in which the staged compressed file's SHA-1 was found equal to
\* the expected compressed hash and, after that, the decompressed file's
\* SHA-1 equal to the expected decompressed hash; every other step of a
\* worker, in particular every step of an attempt in which a check failed,
\* leaves the install directory as it is.
C1_InstallAfterBothChecks ==
    [][\A r \in RemoteNames :
          /\ task[r].decomp_ok => task[r].comp_ok
          /\ (task'[r] # task[r] /\ disk' # disk) =>
                /\ task[r].step = "process"
                /\ task[r].comp_ok
                /\ task[r].decomp_ok]_vars

\* C1 witness: an action installed its file in a later attempt, after an
\* earlier attempt of it had failed
C1_Witness ==
    \E r \in Planned(download_info) :
        /\ task[r].result = "True"
        /\ task[r].attempt >= 1
        /\ disk[download_info[r].local_filename]
              # disk0[download_info[r].local_filename]

\* C2: when a full-download action reports success, install_dir/F exists
\* and hashes to the target hash of the action; and an attempt of a
\* full-download action that was served a payload with the expected
\* compressed and decompressed hashes ends in success.
C2_FullDownloadInstallsTarget ==
    [][\A r \in Planned(download_info) :
          download_info[r].type = "full" =>
            /\ Reports(r, "True") =>
                  /\ disk'[download_info[r].local_filename] # NoFile
                  /\ get_sha1sum(disk'[download_info[r].local_filename])
                        = download_info[r].hash
            /\ (task[r].valid /\ task'[r].attempt # task[r].attempt)
                  => task'[r].result = "True"]_vars

\* C3: at the step in which a patch action reports success, install_dir/F
\* exists and its SHA-1 is the post_patch_hash of the action.
C3_PatchSuccessMeansPostHash ==
    [][\A r \in Planned(download_info) :
          (download_info[r].type = "patch" /\ Reports(r, "True")) =>
            /\ disk'[download_info[r].local_filename] # NoFile
            /\ get_sha1sum(disk'[download_info[r].local_filename])
                  = download_info[r].post_patch_hash]_vars

\* C3 witness: a patch action has reported success
C3_Witness ==
    \E r \in Planned(download_info) :
        download_info[r].type = "patch" /\ task[r].result = "True"

\* C4: when the run is over and every attempt of an action was served a
\* payload whose SHA-1 differs from the expected compressed hash, the action
\* was attempted retry_count times, check_update returned False and
\* install_dir/F is what it was before the run.
C4_CorruptPayloadFailsRun ==
    pc = "done" =>
        \A r \in Planned(download_info) :
            (task[r].state = "done" /\ task[r].all_bad) =>
                /\ task[r].attempt = retry_count
                /\ ret = "False"
                /\ disk[download_info[r].local_filename]
                      = disk0[download_info[r].local_filename]

\* C5: check_update returns True only if every entry of the manifest that
\* applies to the platform and has its fields has a file install_dir/F whose
\* SHA-1 is the entry's hash.
C5_SuccessMeansAllInstalled ==
    (pc = "done" /\ ret = "True") =>
        \A i \in DOMAIN manifest :
            (Eligible(manifest[i]) /\ manifest[i].dl # Missing
                /\ manifest[i].patches.present) =>
                /\ disk[manifest[i].key] # NoFile
                /\ get_sha1sum(disk[manifest[i].key]) = manifest[i].hash

\* C6: in the finished plan no two actions have the same local_filename.
C6_OneActionPerFile ==
    PlanBuilt =>
        \A r1, r2 \in Planned(download_info) :
            r1 # r2 =>
                download_info[r1].local_filename # download_info[r2].local_filename

\* C7: for every entry that applies to the platform and whose file does not
\* exist, the finished plan holds, under the entry's 'dl', a full download of
\* that file with the entry's compHash and hash; without 'dl' the plan holds
\* no action for the file.
C7_MissingFileIsFullDownload ==
    PlanBuilt =>
        \A i \in DOMAIN manifest :
            (Eligible(manifest[i]) /\ disk0[manifest[i].key] = NoFile) =>
                IF manifest[i].dl # Missing
                THEN download_info[manifest[i].dl]
                        = FullAction(manifest[i], manifest[i].key)
                ELSE ActionsFor(manifest[i].key) = {}

\* C8: for every entry that applies to the platform and whose file exists
\* with the entry's hash, the finished plan holds no action for that file.
C8_UpToDateIsNotPlanned ==
    PlanBuilt =>
        \A i \in DOMAIN manifest :
            (/\ Eligible(manifest[i])
             /\ disk0[manifest[i].key] # NoFile
             /\ get_sha1sum(disk0[manifest[i].key]) = manifest[i].hash)
            => ActionsFor(manifest[i].key) = {}

\* the file of entry e exists and its SHA-1 is not the entry's hash
Outdated(e) ==
    /\ Eligible(e)
    /\ disk0[e.key] # NoFile
    /\ get_sha1sum(disk0[e.key]) # e.hash
    /\ e.patches.present

\* C9: for every entry that applies to the platform and whose file exists
\* with a SHA-1 that is not the entry's hash and is a key of its 'patches',
\* the finished plan holds a patch action for the file with the hashes of
\* that patch descriptor and the entry's hash as post_patch_hash.
C9_KnownPredecessorIsPatched ==
    PlanBuilt =>
        \A i \in DOMAIN manifest :
            \A p \in manifest[i].patches.descs :
                (Outdated(manifest[i]) /\ p.src = get_sha1sum(disk0[manifest[i].key]))
                => \E r \in Planned(download_info) :
                      download_info[r] = PatchAction(manifest[i], p, manifest[i].key)

\* C10: a patch action is in the finished plan only for a file whose SHA-1
\* is a key of its entry's 'patches'; and for every existing file whose SHA-1
\* is neither the entry's hash nor a key of 'patches' the plan holds a full
\* download of the file and no patch action.
C10_PatchOnlyFromKnownPredecessor ==
    PlanBuilt =>
        /\ \A r \in Planned(download_info) :
              download_info[r].type = "patch" =>
                \E i \in DOMAIN manifest :
                    /\ manifest[i].key = download_info[r].local_filename
                    /\ \E p \in manifest[i].patches.descs :
                          p.src = get_sha1sum(disk0[manifest[i].key])
        /\ \A i \in DOMAIN manifest :
              (/\ Outdated(manifest[i])
               /\ \A p \in manifest[i].patches.descs :
                     p.src # get_sha1sum(disk0[manifest[i].key]))
              => /\ \E r \in ActionsFor(manifest[i].key) :
                       download_info[r].type = "full"
                 /\ \A r \in ActionsFor(manifest[i].key) :
                       download_info[r].type # "patch"

\* C11: when check_update has returned True, the run that follows on the
\* same manifest and the install directory as this run left it builds an
\* empty plan (and so, by CheckFilesEnd, requests no payload and returns
\* True).
C11_SecondRunPlansNothing ==
    (pc = "done" /\ ret = "True") =>
        check_files(system, manifest, disk, 1, EmptyInfo)
            = [kind |-> "ok", info |-> EmptyInfo]

HasOtherMirror == \E k \in 1..Len(mirrors.list) : mirrors.list[k] # 1

\* the body a valid mirror sends for action r has the expected compressed
\* and decompressed hashes and, for a patch, turns the file of the install
\* directory into the announced version
GenuinePayloads(r) ==
    LET info == download_info[r] IN
    \A p \in Served("valid", info) :
        /\ ValidPayload(info, p)
        /\ info.type = "patch" =>
              /\ disk0[info.local_filename] # NoFile
              /\ get_sha1sum(file_patch_inplace(disk0[info.local_filename],
                                                bz2_read(p)))
                    = info.post_patch_hash

\* the workers of this run have all finished and their results were collected
WorkersCollected == pc = "done" /\ temp = "removed"

\* C13: when the first of at least two mirrors rejects every request and
\* every other mirror serves valid payloads, every planned action has the
\* result True and check_update returns True once the workers are collected.
C13_FailoverSucceeds ==
    (/\ WorkersCollected
     /\ mirrors.serve = HeadServes("reject")
     /\ HasOtherMirror
     /\ \A r \in Planned(download_info) : GenuinePayloads(r))
    => /\ ret = "True"
       /\ \A r \in Planned(download_info) : task[r].result = "True"

\* C14: __download_worker reports only when every submitted future is done,
\* and it returns True exactly when every future holds True.
C14_SuccessIffAllSucceeded ==
    [][(pc = "workers" /\ pc' = "done") =>
          /\ \A r \in Planned(download_info) : task[r].state = "done"
          /\ (ret' = "True") <=>
                (\A r \in Planned(download_info) : task[r].result = "True")]_vars

\* C14 witness: one action failed, another one ran to success, and the run
\* returned False
C14_Witness ==
    /\ WorkersCollected
    /\ ret = "False"
    /\ \E r1, r2 \in Planned(download_info) :
          /\ task[r1].result = "False"
          /\ task[r2].result = "True"
          /\ task[r2].attempt >= 1

\* C15: while the install directory does not exist, check_update is at the
\* install-path check or has returned False from it: the manifest was not
\* requested (the thread never reached __patch_worker), no payload was
\* requested, no staging directory was made and no file was written.
C15_NoDirectoryNoWork ==
    ~dirExists =>
        /\ pc \in {"check_install_path", "done"}
        /\ pc = "done" => ret = "False"
        /\ ~requested
        /\ temp = "none"
        /\ disk = disk0
        /\ \A n \in StageNames : stage[n] = NoFile

\* C15 witness: check_update has returned and the directory does not exist
C15_Witness == pc = "done" /\ ~dirExists /\ ret = "False"

\* C16: when check_update is over, however it ended, the staging directory
\* does not exist and no staged file is left.
C16_StagingRemoved ==
    pc = "done" =>
        /\ temp # "exists"
        /\ \A n \in StageNames : stage[n] = NoFile

\* C16 witness: an exception of a worker left check_update after files had
\* been staged, and the staging directory is gone
C16_Witness == pc = "done" /\ ret = "raise" /\ temp = "removed" /\ requested

\* C17: once an attempt of a patch action has found the patched file's SHA-1
\* different from post_patch_hash, no later step of that action changes the
\* install directory, and the action does not end with True.
C17_NoSecondPatch ==
    [][\A r \in Planned(download_info) :
          task[r].post_mismatch =>
            /\ task'[r] # task[r] => disk' = disk
            /\ task'[r].result # "True"]_vars

\* C18: a step of a worker removes a mirror from the list only when the
\* worker has made at least retry_count failed requests; a worker makes one
\* request per attempt, so attempt + 1 bounds the requests it has made.
C18_EvictionAfterThreeFailures ==
    [][\A r \in Planned(download_info) :
          (task'[r] # task[r] /\ mirrors'.list # mirrors.list)
            => task[r].attempt + 1 >= retry_count]_vars

\* C19: no action is attempted more than retry_count times, an action whose
\* retry_count-th attempt has failed is done with a failure result, and a
\* run whose workers were started ends.
C19_AtMostThreeAttemptsAndTermination ==
    /\ [](\A r \in RemoteNames :
            /\ task[r].attempt <= retry_count
            /\ task[r].attempt = retry_count =>
                  /\ task[r].state = "done"
                  /\ task[r].result \in {"False", "raise"})
    /\ (pc = "workers") ~> (pc = "done")

\* C19 witness: an action failed retry_count times and the run is over
C19_Witness ==
    /\ WorkersCollected
    /\ \E r \in Planned(download_info) :
          task[r].attempt = retry_count /\ task[r].result = "False"

\* C20: when the first of at least two mirrors serves bodies whose SHA-1 is
\* not the expected compressed hash and every other mirror serves valid
\* payloads, every planned action has the result True once the workers are
\* collected.
C20_CorruptMirrorIsEvicted ==
    (/\ WorkersCollected
     /\ mirrors.serve = HeadServes("corrupt")
     /\ HasOtherMirror
     /\ \A r \in Planned(download_info) : GenuinePayloads(r))
    => \A r \in Planned(download_info) : task[r].result = "True"

\* C21: once a call of __get_patch_manifest has raised JSONDecodeError,
\* helper.retry is not in its loop any more: it has neither slept nor is it
\* about to call __get_patch_manifest again.
C21_DecodeErrorNotRetried ==
    pc = "get_patch_manifest" =>
        \A i \in 1..Len(call.log) : call.log[i] # "JSONDecodeError"

\* an action whose target in the install directory cannot be written
ReadOnlyTarget(r) ==
    r \in Planned(download_info) /\ download_info[r].local_filename \in readonly

\* C22: when the last attempt of an action with a genuine payload came to the
\* install step and the target in the install directory could not be
\* written, the action has the
\* result False, every other planned action has run to a result, and
\* check_update returns False.
C22_PermissionErrorIsReturned ==
    \A r \in Planned(download_info) :
        (/\ pc = "done"
         /\ ReadOnlyTarget(r)
         /\ GenuinePayloads(r)
         /\ task[r].state = "done"
         /\ task[r].decomp_ok)
        => /\ task[r].result = "False"
           /\ \A q \in Planned(download_info) : task[q].state = "done"
           /\ ret = "False"

\* C23: when every mirror serves the valid payload in an answer without a
\* Content-Length header, every planned action has the result True once the
\* workers are collected.
C23_NoContentLengthSucceeds ==
    (/\ WorkersCollected
     /\ mirrors.serve = NoLengthServe
     /\ Len(mirrors.list) >= 1
     /\ \A r \in Planned(download_info) : GenuinePayloads(r))
    => \A r \in Planned(download_info) : task[r].result = "True"

\* C24: on a host whose platform tag is not supported no step of check_update
\* creates the install directory, and the install-path check is not what
\* lets the run go on.
C24_UnsupportedPlatformFailsFirst ==
    [][system \notin supported_systems =>
          /\ dirExists' = dirExists
          /\ pc = "check_install_path" => pc' = "done"]_vars

\* C25: after a SIGINT during the downloads check_update has returned False
\* and no worker is running, so the staging directory was removed only after
\* the workers had stopped.
C25_CancellationStopsWorkers ==
    pc = "interrupted" =>
        /\ ret = "False"
        /\ \A r \in RemoteNames : ~Active(r)

\* C26: a worker that has passed the size check of line 475 finds its mirror
\* in the list, so that mirrors.remove(mirror) does not raise.
C26_EvictionNeverRaises ==
    \A r \in Planned(download_info) :
        (Active(r) /\ task[r].step = "evict_remove") =>
            \E k \in 1..Len(mirrors.list) : mirrors.list[k] = task[r].mirror

\* a call of helper.retry with count >= 1 is over
RetryOver == call.state \in {"returned", "raised"} /\ call.count >= 1

\* the outcome of the last call of the callback
LastOutcome == call.log[Len(call.log)]

\* C27: when a call of helper.retry with count >= 1 is over, the callback
\* was called at most count times, every call but the last one raised or
\* returned a falsy value that is not None, and retry returned the value of
\* the last call or raised the exception of the last call.
C27_RetryContract ==
    RetryOver =>
        /\ call.calls = Len(call.log)
        /\ call.calls >= 1
        /\ call.calls <= call.count
        /\ \A i \in 1..(Len(call.log) - 1) :
              call.log[i] \in Falsy \cup Exceptions
        /\ call.value = LastOutcome
        /\ call.state = (IF LastOutcome \in Exceptions THEN "raised"
                         ELSE "returned")

\* C27 witness: retry returned the falsy value of its last call after an
\* earlier call had raised
C27_Witness ==
    /\ RetryOver
    /\ call.state = "returned"
    /\ call.value \in Falsy
    /\ \E i \in 1..Len(call.log) : call.log[i] \in Exceptions

\* C28: when all count calls of a call of helper.retry have failed, retry
\* has slept count - 1 times.
C28_NoSleepAfterLastAttempt ==
    (/\ RetryOver
     /\ call.calls = call.count
     /\ LastOutcome \in Falsy \cup Exceptions)
    => call.sleeps = call.count - 1

\* the file of entry e exists with another SHA-1 than the entry's hash, and
\* the entry has 'dl' and no patch descriptor
NeedsFull(e) ==
    /\ Eligible(e)
    /\ disk0[e.key] # NoFile
    /\ get_sha1sum(disk0[e.key]) # e.hash
    /\ e.patches.descs = {}
    /\ e.dl # Missing

\* C29: for a manifest whose entries all have 'dl', an outdated file whose
\* entry has no 'patches' field or an empty one does not make planning raise,
\* and the finished plan holds a full download of the file.
C29_NoPatchesIsFullDownload ==
    \A i \in DOMAIN manifest :
        (NeedsFull(manifest[i]) /\ \A j \in DOMAIN manifest : manifest[j].dl # Missing)
        => /\ ret # "raise"
           /\ PlanBuilt =>
                \E r \in ActionsFor(manifest[i].key) : download_info[r].type = "full"

\* the plan of the run that follows this one
NextPlanned == check_files(system, manifest, disk, 1, EmptyInfo)

\* C30: when the last attempt of a patch action came to the patch step and
\* the file to patch was gone, the action has the result False, the run does
\* not return True, and the run that follows plans a full download of the
\* file.
C30_MissingPatchBase ==
    \A r \in Planned(download_info) :
        (/\ pc = "done"
         /\ download_info[r].type = "patch"
         /\ task[r].state = "done"
         /\ task[r].decomp_ok
         /\ disk0[download_info[r].local_filename] # NoFile
         /\ disk[download_info[r].local_filename] = NoFile)
        => /\ task[r].result = "False"
           /\ ret # "True"
           /\ NextPlanned.kind = "ok"
           /\ \E q \in RemoteNames :
                 /\ NextPlanned.info[q].type = "full"
                 /\ NextPlanned.info[q].local_filename
                       = download_info[r].local_filename

\* the paths of the staging directory that action r writes: the compressed
\* download under the remote filename, the decompressed file under the
\* local filename
StagingPaths(r) == {r, download_info[r].local_filename}

\* C31: in a run whose workers were started, the compressed and the
\* decompressed staging path of every action differ, and no staging path of
\* an action is a staging path of another action.
C31_StagingPathsDistinct ==
    pc = "workers" =>
        \A r \in Planned(download_info) :
            /\ r # download_info[r].local_filename
            /\ \A q \in Planned(download_info) \ {r} :
                  StagingPaths(r) \cap StagingPaths(q) = {}

\* C32: when __download_worker ends without having created the staging
\* directory although it has a mirror list, check_update returns False; no
\* worker was started and no payload was requested.
C32_StagingCreationFailureIsReturned ==
    [][(pc = "download_worker" /\ mirrors.ok /\ pc' = "done")
          => /\ ret' = "False"
             /\ \A r \in RemoteNames : task'[r].state = "none"
             /\ ~requested']_vars

\* C33: a worker that takes a mirror out of the list has not passed the
\* hash checks of the payload in that attempt: the removal answers a failed
\* request to that mirror, not an error on a local file after the download.
C33_EvictionOnlyAfterFailedRequest ==
    [][\A r \in RemoteNames :
          (/\ pc = "workers"
           /\ task[r].step = "evict_remove"
           /\ task'[r] # task[r]
           /\ mirrors'.list # mirrors.list)
          => ~task[r].comp_ok /\ ~task[r].decomp_ok]_vars

C35_NoMirrorsIsReturned ==
    /\ (pc = "done" /\ mirrors.ok /\ mirrors.list = << >>
            /\ Planned(download_info) # {} /\ temp = "removed")
          => ret = "False"
    /\ ~mirrors.ok =>
          /\ temp = "none"
          /\ ~requested
          /\ (pc = "done" /\ Planned(download_info) # {}) => ret = "False"

\* C36: when start_game was called, soft_fail was not, and the 'success' of
\* the last answer of the login API is none of 'false', 'partial' and
\* 'delayed'.
C36_GameStartsOnlyOnSuccess ==
    login.started =>
        /\ ~login.soft_fail
        /\ login.resp_data \notin {"false", "partial", "delayed"}

\* the number of stored accounts
num_accounts == Cardinality(DOMAIN accounts)

\* C37: the keys of settings_data['accounts'] are always account1 ..
\* accountN for the N stored accounts, and a step that removes an account
\* leaves the accounts before it where they were and moves every account
\* after it one number down.
C37_AccountKeysAreNumbered ==
    /\ [](DOMAIN accounts = 1..num_accounts)
    /\ [][Cardinality(DOMAIN accounts') < num_accounts =>
             \E sel \in DOMAIN accounts :
                /\ DOMAIN accounts' = 1..(num_accounts - 1)
                /\ \A i \in DOMAIN accounts' :
                      accounts'[i] = IF i < sel THEN accounts[i]
                                     ELSE accounts[i + 1]]_vars

\* C37 witness: the first of at least three accounts was removed, so that
\* two accounts or more were renumbered
C37_Witness ==
    /\ selection = [menu |-> 4, account |-> 1]
    /\ num_accounts >= 2
    /\ accounts[1] # accounts[2]

====
